---- MODULE Spec2Model ----
(***************************************************************************)
(* A model of boost/algorithm/search.hpp: the skip tables and the three    *)
(* matchers boyer_moore, boyer_moore_horspool and knuth_morris_pratt; and   *)
(* of the decoding half of boost/algorithm/hex.hpp (unhex).                *)
(*                                                                         *)
(* A matcher object is the record `matcher'; every search call in flight   *)
(* (one per calling thread) has a stack frame in `frame'.  Sequences of    *)
(* the program are 0-based; At and Put translate to TLA+'s 1-based ones.   *)
(* Positions in a corpus are iterators, modelled as offsets from           *)
(* corpus_first, so corpus_last is the corpus length.                      *)
(*                                                                         *)
(* Arithmetic: the mixed std::size_t / int expressions of the searches     *)
(* (j - k - 1, idx - skip_[idx]) are computed modulo 2^64 and converted    *)
(* back; for the magnitudes of this model (all far below 2^31) the result  *)
(* is the mathematical one, which is what the operators below compute.     *)
(***************************************************************************)
EXTENDS Integers, Sequences, FiniteSets, TLC

(* ------------------------------ bounds --------------------------------- *)

\* CHAR_BIT * sizeof(value_type) of the modelled symbol type
Bits == 2
\* longest pattern and corpus of the one-search specification
MaxPat == 3
MaxCorpus == 5
\* searches made with one matcher, and their longest pattern and corpus
MaxSearches == 2
ReuseMaxPat == 2
ReuseMaxCorpus == 3
\* threads sharing one matcher, and their longest pattern and corpus
NumThreads == 2
ConcMaxPat == 1
ConcMaxCorpus == 1
\* largest value inserted into the two skip tables compared side by side
MaxSkipValue == 1
\* longest pattern of the specification of the constructors alone
BuildMaxPat == 5
\* longest input of unhex, and sizeof of the type it decodes to
MaxHexLen == 3
SizeofT == 1

Pow2(n) == 2 ^ n

\* the values of value_type, a signed integer of Bits bits
Symbol == (0 - Pow2(Bits - 1)) .. (Pow2(Bits - 1) - 1)
\* the symbols patterns and corpora are written in
Alphabet == {-1, 0, 1} \cap Symbol
ConcAlphabet == {-1, 0} \cap Symbol

RECURSIVE SeqsOfLen(_, _)
SeqsOfLen(S, n) ==
    IF n = 0 THEN {<<>>}
    ELSE {Append(s, x) : s \in SeqsOfLen(S, n - 1), x \in S}

SeqsUpTo(S, n) == UNION {SeqsOfLen(S, k) : k \in 0..n}

(* ------------------------- 0-based sequences ---------------------------- *)

At(s, i) == s[i + 1]
Put(s, i, v) == [s EXCEPT ![i + 1] = v]
Filled(n, v) == [i \in 1..n |-> v]
Reverse(s) == [i \in 1..Len(s) |-> s[Len(s) + 1 - i]]

(* ----------------------------- skip_table ------------------------------- *)

\* ToUnsigned losing the top bit of the key
ToUnsignedMasked(key) == key % Pow2(Bits - 1)

\* static_cast<unsigned_value_type>(key)
ToUnsigned(key) == key % Pow2(Bits)

\* skip_table<value_type, false>: an unordered_map and a default
MapNew(patSize, default_value) ==
    [useArray |-> FALSE, k_default_value |-> default_value, skip_ |-> <<>>]

MapInsert(tbl, key, val) ==
    [tbl EXCEPT !.skip_ =
        [x \in (DOMAIN tbl.skip_) \cup {key} |->
            IF x = key THEN val ELSE tbl.skip_[x]]]

MapLookup(tbl, val) ==
    IF val \in DOMAIN tbl.skip_ THEN tbl.skip_[val] ELSE tbl.k_default_value

\* skip_table<value_type, true>: an array of 2^Bits ints filled with the default
ArrayNew(patSize, default_value) ==
    [useArray |-> TRUE, k_default_value |-> default_value,
     skip_ |-> [x \in 0..(Pow2(Bits) - 1) |-> default_value]]

ArrayInsert(tbl, key, val) ==
    [tbl EXCEPT !.skip_[ToUnsigned(key)] = val]

ArrayLookup(tbl, val) == tbl.skip_[ToUnsigned(val)]

\* traits::skip_table_t, whichever BM_traits selects
SkipNew(useArray, patSize, default_value) ==
    IF useArray THEN ArrayNew(patSize, default_value)
    ELSE MapNew(patSize, default_value)

SkipInsert(tbl, key, val) ==
    IF tbl.useArray THEN ArrayInsert(tbl, key, val) ELSE MapInsert(tbl, key, val)

SkipLookup(tbl, val) ==
    IF tbl.useArray THEN ArrayLookup(tbl, val) ELSE MapLookup(tbl, val)

(* --------------------------- boyer_moore: tables ------------------------ *)

\* BMSkipLoop keeping the first index inserted for a symbol
RECURSIVE BMSkipLoopKeepFirst(_, _, _)
BMSkipLoopKeepFirst(tbl, p, i) ==
    IF i < Len(p)
    THEN BMSkipLoopKeepFirst(IF SkipLookup(tbl, At(p, i)) = -1
                             THEN SkipInsert(tbl, At(p, i), i) ELSE tbl,
                             p, i + 1)
    ELSE tbl

\* build_bm_tables, the skip-table loop: insert(pattern[i], i) for i = 0..m-1
RECURSIVE BMSkipLoop(_, _, _)
BMSkipLoop(tbl, p, i) ==
    IF i < Len(p) THEN BMSkipLoop(SkipInsert(tbl, At(p, i), i), p, i + 1)
    ELSE tbl

\* compute_bm_prefix, the inner while: fall back along the prefix function
RECURSIVE PrefixWhile(_, _, _, _)
PrefixWhile(p, prefix, k, i) ==
    IF k > 0 /\ At(p, k) # At(p, i)
    THEN PrefixWhile(p, prefix, At(prefix, k - 1), i)
    ELSE k

\* compute_bm_prefix, the for loop from i
RECURSIVE PrefixFor(_, _, _, _)
PrefixFor(p, prefix, k, i) ==
    IF i < Len(p)
    THEN LET k1 == PrefixWhile(p, prefix, k, i)
             k2 == IF At(p, k1) = At(p, i) THEN k1 + 1 ELSE k1
         IN  PrefixFor(p, Put(prefix, i, k2), k2, i + 1)
    ELSE prefix

\* compute_bm_prefix on a non-empty sequence: prefix is a vector of count zeros
compute_bm_prefix(p) == PrefixFor(p, Put(Filled(Len(p), 0), 0, 0), 0, 1)

\* SuffixFor storing k whether or not the entry is greater
RECURSIVE SuffixForOverwriting(_, _, _, _)
SuffixForOverwriting(suffix, prefix_reversed, count, i) ==
    IF i < count
    THEN LET j == count - At(prefix_reversed, i)
             k == i - At(prefix_reversed, i) + 1
         IN  SuffixForOverwriting(Put(suffix, j, k), prefix_reversed, count, i + 1)
    ELSE suffix

\* create_suffix_table, the second loop from i
RECURSIVE SuffixFor(_, _, _, _)
SuffixFor(suffix, prefix_reversed, count, i) ==
    IF i < count
    THEN LET j == count - At(prefix_reversed, i)
             k == i - At(prefix_reversed, i) + 1
         IN  SuffixFor(IF At(suffix, j) > k THEN Put(suffix, j, k) ELSE suffix,
                       prefix_reversed, count, i + 1)
    ELSE suffix

\* create_suffix_table: suffix_ is a vector of count + 1 zeros on entry
create_suffix_table(p) ==
    LET count == Len(p) IN
    IF count > 0
    THEN LET prefix == compute_bm_prefix(p)
             prefix_reversed == compute_bm_prefix(Reverse(p))
         IN  SuffixFor(Filled(count + 1, count - At(prefix, count - 1)),
                       prefix_reversed, count, 0)
    ELSE Filled(count + 1, 0)

\* boyer_moore::boyer_moore
boyer_moore(useArray, p) ==
    [alg |-> "bm", pat |-> p, k_pattern_length |-> Len(p),
     skip_ |-> BMSkipLoop(SkipNew(useArray, Len(p), -1), p, 0),
     suffix_ |-> create_suffix_table(p), kmp_skip_ |-> <<>>]

(* ---------------------- boyer_moore_horspool: table --------------------- *)

\* BMHSkipLoop storing distances one too long
RECURSIVE BMHSkipLoopLong(_, _, _)
BMHSkipLoopLong(tbl, p, i) ==
    IF i < Len(p) - 1
    THEN BMHSkipLoopLong(SkipInsert(tbl, At(p, i), Len(p) - i), p, i + 1)
    ELSE tbl

\* BMHSkipLoop going on to the last symbol of the pattern
RECURSIVE BMHSkipLoopWhole(_, _, _)
BMHSkipLoopWhole(tbl, p, i) ==
    IF i < Len(p)
    THEN BMHSkipLoopWhole(SkipInsert(tbl, At(p, i), Len(p) - 1 - i), p, i + 1)
    ELSE tbl

\* the constructor's loop: insert(pattern[i], m - 1 - i) for i = 0..m-2
RECURSIVE BMHSkipLoop(_, _, _)
BMHSkipLoop(tbl, p, i) ==
    IF i < Len(p) - 1
    THEN BMHSkipLoop(SkipInsert(tbl, At(p, i), Len(p) - 1 - i), p, i + 1)
    ELSE tbl

\* boyer_moore_horspool with a table whose default is one more than the length
boyer_moore_horspool_long_default(useArray, p) ==
    [alg |-> "bmh", pat |-> p, k_pattern_length |-> Len(p),
     skip_ |-> IF Len(p) # 0
               THEN BMHSkipLoop(SkipNew(useArray, Len(p), Len(p) + 1), p, 0)
               ELSE SkipNew(useArray, Len(p), Len(p) + 1),
     suffix_ |-> <<>>, kmp_skip_ |-> <<>>]

\* boyer_moore_horspool::boyer_moore_horspool
boyer_moore_horspool(useArray, p) ==
    [alg |-> "bmh", pat |-> p, k_pattern_length |-> Len(p),
     skip_ |-> IF Len(p) # 0
               THEN BMHSkipLoop(SkipNew(useArray, Len(p), Len(p)), p, 0)
               ELSE SkipNew(useArray, Len(p), Len(p)),
     suffix_ |-> <<>>, kmp_skip_ |-> <<>>]

(* ----------------------- knuth_morris_pratt: table ---------------------- *)

\* KMPWhile giving up at the first mismatch instead of falling back
KMPWhileNoFallback(p, skip, j, i) ==
    IF j >= 0 /\ At(p, j) = At(p, i - 1) THEN j ELSE -1

\* init_skip_table, the inner while from j
RECURSIVE KMPWhile(_, _, _, _)
KMPWhile(p, skip, j, i) ==
    IF j >= 0
    THEN IF At(p, j) = At(p, i - 1) THEN j
         ELSE KMPWhile(p, skip, At(skip, j), i)
    ELSE j

\* init_skip_table, the for loop from i
RECURSIVE KMPFor(_, _, _)
KMPFor(p, skip, i) ==
    IF i <= Len(p)
    THEN KMPFor(p, Put(skip, i, KMPWhile(p, skip, At(skip, i - 1), i) + 1), i + 1)
    ELSE skip

\* init_skip_table: skip_ is a vector of m + 1 zeros on entry
init_skip_table(p) == KMPFor(p, Put(Filled(Len(p) + 1, 0), 0, -1), 1)

\* knuth_morris_pratt has no skip_table member
NoTable == [useArray |-> FALSE, k_default_value |-> 0, skip_ |-> <<>>]

\* knuth_morris_pratt::knuth_morris_pratt; kmp_skip_ is its member skip_, a
\* std::vector<int>
knuth_morris_pratt(p) ==
    [alg |-> "kmp", pat |-> p, k_pattern_length |-> Len(p),
     skip_ |-> NoTable, suffix_ |-> <<>>, kmp_skip_ |-> init_skip_table(p)]

(* ------------------------------- unhex ---------------------------------- *)

\* Characters are their ASCII codes: '0' is 48, '9' 57, 'A' 65, 'F' 70,
\* 'a' 97, 'f' 102; the terminator of a string is 0.

\* hex_char_to_int taking 'G' for a digit
hex_char_to_int_upto_G(c) ==
    IF c >= 48 /\ c <= 57 THEN [thrown |-> "none", value |-> c - 48]
    ELSE IF c >= 65 /\ c <= 71 THEN [thrown |-> "none", value |-> c - 65 + 10]
    ELSE IF c >= 97 /\ c <= 102 THEN [thrown |-> "none", value |-> c - 97 + 10]
    ELSE [thrown |-> "non_hex_input", value |-> 0]

\* detail::hex_char_to_int: the digit's value, or the exception thrown
hex_char_to_int(c) ==
    IF c >= 48 /\ c <= 57 THEN [thrown |-> "none", value |-> c - 48]
    ELSE IF c >= 65 /\ c <= 70 THEN [thrown |-> "none", value |-> c - 65 + 10]
    ELSE IF c >= 97 /\ c <= 102 THEN [thrown |-> "none", value |-> c - 97 + 10]
    ELSE [thrown |-> "non_hex_input", value |-> 0]

\* the characters of one decode unit, 2 * sizeof ( T )
UnitLen == 2 * SizeofT

\* the frame of unhex before any call
IdleDecoder ==
    [pc |-> "idle", form |-> "none", mem |-> <<>>, len |-> 0, first |-> 0,
     last |-> 0, i |-> 0, res |-> 0, out |-> <<>>, thrown |-> "none"]

\* BOOST_THROW_EXCEPTION leaving unhex
Throw(d, e) == [d EXCEPT !.pc = "done", !.thrown = e]

\* unhex ( first, last, out ) is entered: the characters are s, last is their end
unhex_range(s) ==
    [IdleDecoder EXCEPT !.pc = "loop", !.form = "range", !.mem = s,
                        !.len = Len(s), !.last = Len(s)]

\* unhex ( ptr, out ) is entered: the characters are s and a terminator
unhex_ptr(s) ==
    [IdleDecoder EXCEPT !.pc = "loop", !.form = "ptr", !.mem = Append(s, 0),
                        !.len = Len(s)]

\* the loop condition of unhex: first != last, or *ptr; the call of decode_one,
\* for the pointer form with the end iterator ptr + 2 * sizeof(OutputType)
UnhexLoopStep(d) ==
    LET more == IF d.form = "range" THEN d.first # d.last
                ELSE At(d.mem, d.first) # 0
        last == IF d.form = "range" THEN d.last ELSE d.first + UnitLen
    IN  IF more THEN [d EXCEPT !.pc = "decode", !.last = last, !.i = 0, !.res = 0]
        ELSE [d EXCEPT !.pc = "done"]

\* one iteration of the loop of decode_one; res is of type T, taken unsigned
DecodeCharStep(d) ==
    IF d.first = d.last THEN Throw(d, "not_enough_input")
    ELSE LET digit == hex_char_to_int(At(d.mem, d.first)) IN
         IF digit.thrown # "none" THEN Throw(d, digit.thrown)
         ELSE [d EXCEPT !.res = (d.res * 16 + digit.value) % Pow2(8 * SizeofT),
                        !.i = d.i + 1, !.first = d.first + 1]

\* decode_one after its loop: *out++ = res
DecodeEmitStep(d) == [d EXCEPT !.out = Append(d.out, d.res), !.pc = "loop"]

(* ------------------------------- state ---------------------------------- *)

VARIABLES
    matcher,    \* the matcher object: pat (pat_first..pat_last), k_pattern_length,
                \* skip_ (the skip table of boyer_moore and boyer_moore_horspool),
                \* suffix_ (boyer_moore), kmp_skip_ (the vector skip_ of
                \* knuth_morris_pratt), and alg, its class
    frame,      \* per calling thread, the frame of its search call: corpus
                \* (corpus_first..corpus_last), the locals of do_search, the
                \* position in the code (pc) and the returned iterator (ret)
    nsearch,    \* per calling thread, the searches it has started
    dense,      \* a skip_table<value_type, true> and
    assoc,      \* a skip_table<value_type, false>, constructed alike and
                \* given the same insert calls
    written,    \* per symbol, the value of the last insert call for it:
                \* <<v>>, or <<>> when there was none
    decoder     \* the frame of a call of unhex: the characters it reads (mem),
                \* the iterators first and last, the locals of decode_one, the
                \* values written to out, the position in the code (pc) and
                \* the exception thrown

vars == <<matcher, frame, nsearch, dense, assoc, written, decoder>>

\* the frame of a thread that has made no call; ret is -1 until a call returns
IdleFrame ==
    [pc |-> "idle", corpus |-> <<>>, curPos |-> 0, j |-> 0,
     idx |-> 0, match_start |-> 0, ret |-> -1]

\* a return statement of operator() or do_search
Return(f, pos) == [f EXCEPT !.pc = "done", !.ret = pos]

(* ----------------------------- operator() ------------------------------- *)

\* operator_call answering corpus_last for an empty pattern
operator_call_empty_last(M, c) ==
    LET f == [IdleFrame EXCEPT !.corpus = c]
        k_corpus_length == Len(c)
    IN  IF Len(c) = 0 THEN Return(f, Len(c))
        ELSE IF Len(M.pat) = 0 THEN Return(f, Len(c))
        ELSE IF k_corpus_length < M.k_pattern_length THEN Return(f, Len(c))
        ELSE [f EXCEPT !.pc = "outer"]

\* operator_call without the test for a pattern longer than the corpus
operator_call_no_length_test(M, c) ==
    LET f == [IdleFrame EXCEPT !.corpus = c]
    IN  IF Len(c) = 0 THEN Return(f, Len(c))
        ELSE IF Len(M.pat) = 0 THEN Return(f, 0)
        ELSE [f EXCEPT !.pc = "outer"]

\* operator() of the three matchers (the three bodies are the same), up to and
\* including the initialisation of do_search's locals
operator_call(M, c) ==
    LET f == [IdleFrame EXCEPT !.corpus = c]
        k_corpus_length == Len(c)
    IN  IF Len(c) = 0 THEN Return(f, Len(c))
        ELSE IF Len(M.pat) = 0 THEN Return(f, 0)
        ELSE IF k_corpus_length < M.k_pattern_length THEN Return(f, Len(c))
        ELSE [f EXCEPT !.pc = "outer"]

(* ------------------------ boyer_moore::do_search ------------------------ *)

\* BMOuterStep trying one alignment more, past lastPos
BMOuterStepPastLast(M, f) ==
    LET lastPos == Len(f.corpus) - M.k_pattern_length IN
    IF f.curPos <= lastPos + 1
    THEN [f EXCEPT !.j = M.k_pattern_length, !.pc = "compare"]
    ELSE Return(f, Len(f.corpus))

\* while ( curPos <= lastPos ) { j = k_pattern_length; ...  / return corpus_last
BMOuterStep(M, f) ==
    LET lastPos == Len(f.corpus) - M.k_pattern_length IN
    IF f.curPos <= lastPos
    THEN [f EXCEPT !.j = M.k_pattern_length, !.pc = "compare"]
    ELSE Return(f, Len(f.corpus))

\* while ( pat_first [j-1] == curPos [j-1] ) { j--; if ( j == 0 ) return curPos; }
BMCompareStep(M, f) ==
    IF At(M.pat, f.j - 1) = At(f.corpus, f.curPos + f.j - 1)
    THEN IF f.j - 1 = 0 THEN Return([f EXCEPT !.j = 0], f.curPos)
         ELSE [f EXCEPT !.j = f.j - 1]
    ELSE [f EXCEPT !.pc = "skip"]

\* BMShift reading the suffix table one entry too low
BMShiftLowEntry(M, f) ==
    LET k == SkipLookup(M.skip_, At(f.corpus, f.curPos + f.j - 1))
        m == f.j - k - 1
    IN  IF k < f.j /\ m > At(M.suffix_, f.j - 1) THEN m ELSE At(M.suffix_, f.j - 1)

\* the distance boyer_moore skips forward after a mismatch
BMShift(M, f) ==
    LET k == SkipLookup(M.skip_, At(f.corpus, f.curPos + f.j - 1))
        m == f.j - k - 1
    IN  IF k < f.j /\ m > At(M.suffix_, f.j) THEN m ELSE At(M.suffix_, f.j)

BMSkipStep(M, f) == [f EXCEPT !.curPos = f.curPos + BMShift(M, f), !.pc = "outer"]

(* -------------------- boyer_moore_horspool::do_search ------------------- *)

\* while ( curPos <= lastPos ) { std::size_t j = k_pattern_length - 1; ...
BMHOuterStep(M, f) ==
    LET lastPos == Len(f.corpus) - M.k_pattern_length IN
    IF f.curPos <= lastPos
    THEN [f EXCEPT !.j = M.k_pattern_length - 1, !.pc = "compare"]
    ELSE Return(f, Len(f.corpus))

\* while ( pat_first [j] == curPos [j] ) { if ( j == 0 ) return curPos; j--; }
BMHCompareStep(M, f) ==
    IF At(M.pat, f.j) = At(f.corpus, f.curPos + f.j)
    THEN IF f.j = 0 THEN Return(f, f.curPos)
         ELSE [f EXCEPT !.j = f.j - 1]
    ELSE [f EXCEPT !.pc = "skip"]

\* BMHShift measuring the distance from the last pattern position itself
BMHShiftFromLast(M, f) ==
    LET c == At(f.corpus, f.curPos + M.k_pattern_length - 1) IN
    IF c = At(M.pat, M.k_pattern_length - 1) THEN 0 ELSE SkipLookup(M.skip_, c)

\* the distance boyer_moore_horspool skips forward after a mismatch
BMHShift(M, f) ==
    SkipLookup(M.skip_, At(f.corpus, f.curPos + M.k_pattern_length - 1))

BMHSkipStep(M, f) == [f EXCEPT !.curPos = f.curPos + BMHShift(M, f), !.pc = "outer"]

(* --------------------- knuth_morris_pratt::do_search -------------------- *)

\* while ( match_start <= last_match ) ...  / return corpus_last
KMPOuterStep(M, f) ==
    LET last_match == Len(f.corpus) - M.k_pattern_length IN
    IF f.match_start <= last_match
    THEN [f EXCEPT !.pc = "compare"]
    ELSE Return(f, Len(f.corpus))

\* while ( pat_first [ idx ] == corpus_first [ match_start + idx ] )
\*     if ( ++idx == k_pattern_length ) return corpus_first + match_start;
KMPCompareStep(M, f) ==
    IF At(M.pat, f.idx) = At(f.corpus, f.match_start + f.idx)
    THEN IF f.idx + 1 = M.k_pattern_length
         THEN Return([f EXCEPT !.idx = f.idx + 1], f.match_start)
         ELSE [f EXCEPT !.idx = f.idx + 1]
    ELSE [f EXCEPT !.pc = "skip"]

\* KMPAdvance moving past everything matched, overlaps ignored
KMPAdvanceWhole(M, f) == f.match_start + (IF f.idx > 0 THEN f.idx ELSE 1)

\* match_start += idx - skip_ [ idx ];
KMPAdvance(M, f) == f.match_start + (f.idx - At(M.kmp_skip_, f.idx))

\* KMPRestart comparing the pattern from its first symbol again
KMPRestartZero(M, f) == 0

\* idx = skip_ [ idx ] >= 0 ? skip_ [ idx ] : 0;
KMPRestart(M, f) == IF At(M.kmp_skip_, f.idx) >= 0 THEN At(M.kmp_skip_, f.idx) ELSE 0

KMPSkipStep(M, f) ==
    [f EXCEPT !.match_start = KMPAdvance(M, f), !.idx = KMPRestart(M, f),
              !.pc = "outer"]

(* ------------------------- the one-shot functions ----------------------- *)

\* the step of do_search a frame is at
do_search_step(M, f) ==
    CASE M.alg = "bm" /\ f.pc = "outer" -> BMOuterStep(M, f)
      [] M.alg = "bm" /\ f.pc = "compare" -> BMCompareStep(M, f)
      [] M.alg = "bm" /\ f.pc = "skip" -> BMSkipStep(M, f)
      [] M.alg = "bmh" /\ f.pc = "outer" -> BMHOuterStep(M, f)
      [] M.alg = "bmh" /\ f.pc = "compare" -> BMHCompareStep(M, f)
      [] M.alg = "bmh" /\ f.pc = "skip" -> BMHSkipStep(M, f)
      [] M.alg = "kmp" /\ f.pc = "outer" -> KMPOuterStep(M, f)
      [] M.alg = "kmp" /\ f.pc = "compare" -> KMPCompareStep(M, f)
      [] M.alg = "kmp" /\ f.pc = "skip" -> KMPSkipStep(M, f)

\* a call run from frame f until it returns, nothing else running
RECURSIVE do_search(_, _)
do_search(M, f) ==
    IF f.pc = "done" THEN f ELSE do_search(M, do_search_step(M, f))

\* boyer_moore_search: boyer_moore<patIter> bm ( pat ); return bm ( corpus );
boyer_moore_search(useArray, c, p) ==
    LET bm == boyer_moore(useArray, p) IN do_search(bm, operator_call(bm, c)).ret

\* boyer_moore_horspool_search
boyer_moore_horspool_search(useArray, c, p) ==
    LET bmh == boyer_moore_horspool(useArray, p)
    IN  do_search(bmh, operator_call(bmh, c)).ret

\* knuth_morris_pratt_search
knuth_morris_pratt_search(c, p) ==
    LET kmp == knuth_morris_pratt(p) IN do_search(kmp, operator_call(kmp, c)).ret

(* ------------------------------ actions --------------------------------- *)

\* the calling threads; the first one alone where the matcher is not shared
Threads == 1..NumThreads
Caller == {1}

Patterns == SeqsUpTo(Alphabet, MaxPat)
Corpora == SeqsUpTo(Alphabet, MaxCorpus)
ReusePatterns == SeqsUpTo(Alphabet, ReuseMaxPat)
ReuseCorpora == SeqsUpTo(Alphabet, ReuseMaxCorpus)
ConcPatterns == SeqsUpTo(ConcAlphabet, ConcMaxPat)
ConcCorpora == SeqsUpTo(ConcAlphabet, ConcMaxCorpus)

\* every matcher that can be constructed from a pattern of `pats'
Matchers(pats) ==
    {boyer_moore(a, p) : a \in BOOLEAN, p \in pats}
    \cup {boyer_moore_horspool(a, p) : a \in BOOLEAN, p \in pats}
    \cup {knuth_morris_pratt(p) : p \in pats}

\* CallWith with the alignment kept from the thread's last call, as if it were
\* a member of the matcher
CallWithStale(t, corpora, limit) ==
    /\ frame[t].pc \in {"idle", "done"}
    /\ nsearch[t] < limit
    /\ \E c \in corpora :
          frame' = [frame EXCEPT ![t] =
                       [operator_call(matcher, c) EXCEPT
                           !.curPos = frame[t].curPos,
                           !.match_start = frame[t].match_start]]
    /\ nsearch' = [nsearch EXCEPT ![t] = nsearch[t] + 1]
    /\ UNCHANGED <<matcher, dense, assoc, written, decoder>>

\* thread t calls matcher ( corpus_first, corpus_last ) on a corpus of `corpora',
\* unless it has made `limit' calls or its last call has not returned
CallWith(t, corpora, limit) ==
    /\ frame[t].pc \in {"idle", "done"}
    /\ nsearch[t] < limit
    /\ \E c \in corpora : frame' = [frame EXCEPT ![t] = operator_call(matcher, c)]
    /\ nsearch' = [nsearch EXCEPT ![t] = nsearch[t] + 1]
    /\ UNCHANGED <<matcher, dense, assoc, written, decoder>>

Call(t) == CallWith(t, Corpora, 1)
ReuseCall(t) == CallWith(t, ReuseCorpora, MaxSearches)
ConcCall(t) == CallWith(t, ConcCorpora, 1)

\* thread t's call is at `pc' in the do_search of class `alg'
InSearch(t, alg, pc) == matcher.alg = alg /\ frame[t].pc = pc

\* boyer_moore::do_search tests the loop condition
BMOuter(t) ==
    /\ InSearch(t, "bm", "outer")
    /\ frame' = [frame EXCEPT ![t] = BMOuterStep(matcher, frame[t])]
    /\ UNCHANGED <<matcher, nsearch, dense, assoc, written, decoder>>

\* boyer_moore::do_search compares one pattern symbol with one corpus symbol
BMCompare(t) ==
    /\ InSearch(t, "bm", "compare")
    /\ frame' = [frame EXCEPT ![t] = BMCompareStep(matcher, frame[t])]
    /\ UNCHANGED <<matcher, nsearch, dense, assoc, written, decoder>>

\* boyer_moore::do_search moves the alignment forward after a mismatch
BMSkip(t) ==
    /\ InSearch(t, "bm", "skip")
    /\ frame' = [frame EXCEPT ![t] = BMSkipStep(matcher, frame[t])]
    /\ UNCHANGED <<matcher, nsearch, dense, assoc, written, decoder>>

\* boyer_moore_horspool::do_search tests the loop condition
BMHOuter(t) ==
    /\ InSearch(t, "bmh", "outer")
    /\ frame' = [frame EXCEPT ![t] = BMHOuterStep(matcher, frame[t])]
    /\ UNCHANGED <<matcher, nsearch, dense, assoc, written, decoder>>

\* boyer_moore_horspool::do_search compares one pattern symbol with one corpus symbol
BMHCompare(t) ==
    /\ InSearch(t, "bmh", "compare")
    /\ frame' = [frame EXCEPT ![t] = BMHCompareStep(matcher, frame[t])]
    /\ UNCHANGED <<matcher, nsearch, dense, assoc, written, decoder>>

\* a lookup that, like unordered_map::operator[], stores the default value for
\* a symbol the map does not hold
MapTouch(tbl, val) ==
    IF tbl.useArray \/ val \in DOMAIN tbl.skip_ THEN tbl
    ELSE MapInsert(tbl, val, tbl.k_default_value)

\* BMHSkip looking the symbol up with MapTouch
BMHSkipTouching(t) ==
    /\ InSearch(t, "bmh", "skip")
    /\ frame' = [frame EXCEPT ![t] = BMHSkipStep(matcher, frame[t])]
    /\ matcher' = [matcher EXCEPT !.skip_ =
           MapTouch(matcher.skip_,
                    At(frame[t].corpus,
                       frame[t].curPos + matcher.k_pattern_length - 1))]
    /\ UNCHANGED <<nsearch, dense, assoc, written, decoder>>

\* boyer_moore_horspool::do_search moves the alignment forward after a mismatch
BMHSkip(t) ==
    /\ InSearch(t, "bmh", "skip")
    /\ frame' = [frame EXCEPT ![t] = BMHSkipStep(matcher, frame[t])]
    /\ UNCHANGED <<matcher, nsearch, dense, assoc, written, decoder>>

\* knuth_morris_pratt::do_search tests the loop condition
KMPOuter(t) ==
    /\ InSearch(t, "kmp", "outer")
    /\ frame' = [frame EXCEPT ![t] = KMPOuterStep(matcher, frame[t])]
    /\ UNCHANGED <<matcher, nsearch, dense, assoc, written, decoder>>

\* KMPCompare with idx a member of the matcher, one for all the calls in flight
KMPCompareSharedIdx(t) ==
    /\ InSearch(t, "kmp", "compare")
    /\ frame' = [u \in Threads |->
                    IF u = t THEN KMPCompareStep(matcher, frame[t])
                    ELSE IF frame[u].pc \in {"outer", "compare", "skip"}
                         THEN [frame[u] EXCEPT
                                  !.idx = KMPCompareStep(matcher, frame[t]).idx]
                         ELSE frame[u]]
    /\ UNCHANGED <<matcher, nsearch, dense, assoc, written, decoder>>

\* knuth_morris_pratt::do_search compares one pattern symbol with one corpus symbol
KMPCompare(t) ==
    /\ InSearch(t, "kmp", "compare")
    /\ frame' = [frame EXCEPT ![t] = KMPCompareStep(matcher, frame[t])]
    /\ UNCHANGED <<matcher, nsearch, dense, assoc, written, decoder>>

\* knuth_morris_pratt::do_search moves the alignment forward after a mismatch
KMPSkip(t) ==
    /\ InSearch(t, "kmp", "skip")
    /\ frame' = [frame EXCEPT ![t] = KMPSkipStep(matcher, frame[t])]
    /\ UNCHANGED <<matcher, nsearch, dense, assoc, written, decoder>>

\* one step of thread t's search in flight
SearchStep(t) ==
    \/ BMOuter(t) \/ BMCompare(t) \/ BMSkip(t)
    \/ BMHOuter(t) \/ BMHCompare(t) \/ BMHSkip(t)
    \/ KMPOuter(t) \/ KMPCompare(t) \/ KMPSkip(t)

NoCalls ==
    /\ frame = [t \in Threads |-> IdleFrame]
    /\ nsearch = [t \in Threads |-> 0]
    /\ decoder = IdleDecoder

\* the two skip tables on their own, as constructed with (patSize, default_value)
TablesNew(patSize, default_value) ==
    /\ dense = ArrayNew(patSize, default_value)
    /\ assoc = MapNew(patSize, default_value)
    /\ written = [x \in Symbol |-> <<>>]

\* insert ( key, val ) on both skip tables
Insert(key, val) ==
    /\ dense' = ArrayInsert(dense, key, val)
    /\ assoc' = MapInsert(assoc, key, val)
    /\ written' = [written EXCEPT ![key] = <<val>>]
    /\ UNCHANGED <<matcher, frame, nsearch, decoder>>

\* the characters unhex is given: digits, letters of both cases, and 'G'
HexChars == {48, 57, 70, 97, 71}
HexInputs == SeqsUpTo(HexChars, MaxHexLen)

\* unhex ( first, last, out ) is called
UnhexRange ==
    /\ decoder.pc = "idle"
    /\ \E s \in HexInputs : decoder' = unhex_range(s)
    /\ UNCHANGED <<matcher, frame, nsearch, dense, assoc, written>>

\* unhex ( ptr, out ) is called
UnhexPtr ==
    /\ decoder.pc = "idle"
    /\ \E s \in HexInputs : decoder' = unhex_ptr(s)
    /\ UNCHANGED <<matcher, frame, nsearch, dense, assoc, written>>

\* unhex tests its loop condition
UnhexLoop ==
    /\ decoder.pc = "loop"
    /\ decoder' = UnhexLoopStep(decoder)
    /\ UNCHANGED <<matcher, frame, nsearch, dense, assoc, written>>

\* decode_one reads one character
DecodeChar ==
    /\ decoder.pc = "decode"
    /\ decoder.i < UnitLen
    /\ decoder' = DecodeCharStep(decoder)
    /\ UNCHANGED <<matcher, frame, nsearch, dense, assoc, written>>

\* decode_one writes the decoded value
DecodeEmit ==
    /\ decoder.pc = "decode"
    /\ decoder.i >= UnitLen
    /\ decoder' = DecodeEmitStep(decoder)
    /\ UNCHANGED <<matcher, frame, nsearch, dense, assoc, written>>

\* no matcher has been constructed
NoMatcher ==
    [alg |-> "none", pat |-> <<>>, k_pattern_length |-> 0,
     skip_ |-> NoTable, suffix_ |-> <<>>, kmp_skip_ |-> <<>>]

BuildPatterns == SeqsUpTo(Alphabet, BuildMaxPat)

\* boyer_moore ( first, last ) is constructed
ConstructBM ==
    /\ matcher.alg = "none"
    /\ \E a \in BOOLEAN, p \in BuildPatterns : matcher' = boyer_moore(a, p)
    /\ UNCHANGED <<frame, nsearch, dense, assoc, written, decoder>>

\* boyer_moore_horspool ( first, last ) is constructed
ConstructBMH ==
    /\ matcher.alg = "none"
    /\ \E a \in BOOLEAN, p \in BuildPatterns :
          matcher' = boyer_moore_horspool(a, p)
    /\ UNCHANGED <<frame, nsearch, dense, assoc, written, decoder>>

\* knuth_morris_pratt ( first, last ) is constructed
ConstructKMP ==
    /\ matcher.alg = "none"
    /\ \E p \in BuildPatterns : matcher' = knuth_morris_pratt(p)
    /\ UNCHANGED <<frame, nsearch, dense, assoc, written, decoder>>

(* One thread builds a matcher and searches one corpus with it. *)

Init == matcher \in Matchers(Patterns) /\ NoCalls /\ TablesNew(0, 0)

Next ==
    \E t \in Caller :
        \/ Call(t)
        \/ BMOuter(t) \/ BMCompare(t) \/ BMSkip(t)
        \/ BMHOuter(t) \/ BMHCompare(t) \/ BMHSkip(t)
        \/ KMPOuter(t) \/ KMPCompare(t) \/ KMPSkip(t)

Spec == Init /\ [][Next]_vars

(* One thread builds a matcher and searches several corpora with it, one   *)
(* after the other.                                                        *)

InitReuse == matcher \in Matchers(ReusePatterns) /\ NoCalls /\ TablesNew(0, 0)

NextReuse ==
    \E t \in Caller :
        \/ ReuseCall(t)
        \/ BMOuter(t) \/ BMCompare(t) \/ BMSkip(t)
        \/ BMHOuter(t) \/ BMHCompare(t) \/ BMHSkip(t)
        \/ KMPOuter(t) \/ KMPCompare(t) \/ KMPSkip(t)

SpecReuse == InitReuse /\ [][NextReuse]_vars

\* the same, the calling thread running on as long as its call has not returned
SpecFair == SpecReuse /\ \A t \in Caller : WF_vars(SearchStep(t))

(* Several threads search with one matcher at once, their steps interleaved. *)

InitConc == matcher \in Matchers(ConcPatterns) /\ NoCalls /\ TablesNew(0, 0)

NextConc ==
    \E t \in Threads :
        \/ ConcCall(t)
        \/ BMOuter(t) \/ BMCompare(t) \/ BMSkip(t)
        \/ BMHOuter(t) \/ BMHCompare(t) \/ BMHSkip(t)
        \/ KMPOuter(t) \/ KMPCompare(t) \/ KMPSkip(t)

SpecConc == InitConc /\ [][NextConc]_vars

(* The two skip_table implementations side by side: constructed with the   *)
(* same arguments, then given the same insert calls.                       *)

\* the values the matchers insert (offsets into the pattern) and the default
\* values they construct a table with (-1, or the pattern length)
SkipValues == 0..MaxSkipValue
SkipDefaults == {-1, MaxSkipValue + 1}

InitSkip ==
    /\ matcher = knuth_morris_pratt(<<>>)
    /\ NoCalls
    /\ \E d \in SkipDefaults : TablesNew(MaxSkipValue + 1, d)

NextSkip == \E key \in Symbol, val \in SkipValues : Insert(key, val)

SpecSkip == InitSkip /\ [][NextSkip]_vars

(* The constructors alone, on patterns longer than those searched with.   *)

InitBuild == matcher = NoMatcher /\ NoCalls /\ TablesNew(0, 0)

NextBuild == ConstructBM \/ ConstructBMH \/ ConstructKMP

SpecBuild == InitBuild /\ [][NextBuild]_vars

(* One call of unhex, in either form, on one input.                        *)

InitHex == matcher = knuth_morris_pratt(<<>>) /\ NoCalls /\ TablesNew(0, 0)

NextHex == UnhexRange \/ UnhexPtr \/ UnhexLoop \/ DecodeChar \/ DecodeEmit

SpecHex == InitHex /\ [][NextHex]_vars

(* ------------------------------------------------------------------------ *)
(* Properties                                                               *)
(* ------------------------------------------------------------------------ *)

\* the pattern P occurs in the corpus C at offset i
Occurs(P, C, i) == \A x \in 0..(Len(P) - 1) : At(C, i + x) = At(P, x)

\* the brute-force scan: the least offset at which P occurs in C, or Len(C)
naive_search(P, C) ==
    LET hits == {i \in 0..(Len(C) - Len(P)) : Occurs(P, C, i)} IN
    IF hits = {} THEN Len(C) ELSE CHOOSE i \in hits : \A h \in hits : i <= h

\* thread t's search with a matcher of class `alg' has returned
Returned(t, alg) == matcher.alg = alg /\ frame[t].pc = "done"

\* thread t's search with a matcher of class `alg' has returned a match found
\* after the first alignment, of a pattern of two symbols or more
FoundLater(t, alg) ==
    /\ Returned(t, alg)
    /\ matcher.k_pattern_length >= 2
    /\ frame[t].ret >= 1
    /\ frame[t].ret + matcher.k_pattern_length <= Len(frame[t].corpus)

\* C1: whatever the pattern and the corpus (empty ones and patterns longer than
\* the corpus included), a boyer_moore search returns what the brute-force scan
\* returns: the least offset at which the pattern occurs, or corpus_last.
C1_BoyerMooreIsNaive ==
    \A t \in Threads :
        Returned(t, "bm") =>
            frame[t].ret = naive_search(matcher.pat, frame[t].corpus)

C1_Witness == \E t \in Threads : FoundLater(t, "bm") /\ frame[t].curPos >= 1

\* C2: whatever the pattern and the corpus, a boyer_moore_horspool search returns
\* what the brute-force scan returns.
C2_HorspoolIsNaive ==
    \A t \in Threads :
        Returned(t, "bmh") =>
            frame[t].ret = naive_search(matcher.pat, frame[t].corpus)

C2_Witness == \E t \in Threads : FoundLater(t, "bmh") /\ frame[t].curPos >= 1

\* C3: whatever the pattern and the corpus, a knuth_morris_pratt search returns
\* what the brute-force scan returns.
C3_KMPIsNaive ==
    \A t \in Threads :
        Returned(t, "kmp") =>
            frame[t].ret = naive_search(matcher.pat, frame[t].corpus)

C3_Witness == \E t \in Threads : FoundLater(t, "kmp") /\ frame[t].match_start >= 1

\* C4: with an empty pattern a search of any of the three matchers returns
\* position 0 of the corpus, whatever the corpus (for the empty corpus position 0
\* is corpus_last too).
C4_EmptyPatternAtZero ==
    \A t \in Threads :
        (frame[t].pc = "done" /\ Len(matcher.pat) = 0) => frame[t].ret = 0

C4_Witness ==
    \E t \in Threads :
        /\ frame[t].pc = "done"
        /\ Len(matcher.pat) = 0
        /\ Len(frame[t].corpus) >= 1
        /\ frame[t].ret = 0

\* C5: a call with a pattern longer than the corpus is never inside the search
\* loop (so it reads no corpus symbol), and what it returns is corpus_last.
C5_LongPatternNotFound ==
    \A t \in Threads :
        Len(frame[t].corpus) < matcher.k_pattern_length =>
            /\ frame[t].pc \in {"idle", "done"}
            /\ frame[t].pc = "done" => frame[t].ret = Len(frame[t].corpus)

C5_Witness ==
    \E t \in Threads :
        /\ frame[t].pc = "done"
        /\ Len(frame[t].corpus) >= 1
        /\ Len(frame[t].corpus) < matcher.k_pattern_length
        /\ frame[t].ret = Len(frame[t].corpus)

\* the one-shot search (construct, then apply) of the pattern of matcher M in c
OneShot(M, c) ==
    CASE M.alg = "bm" -> boyer_moore_search(M.skip_.useArray, c, M.pat)
      [] M.alg = "bmh" -> boyer_moore_horspool_search(M.skip_.useArray, c, M.pat)
      [] M.alg = "kmp" -> knuth_morris_pratt_search(c, M.pat)

\* C6: each search of a sequence of searches made with one matcher returns what
\* a one-shot search of the same pattern in the same corpus returns, whatever
\* was searched before (so the same corpus gives the same result every time).
C6_ReuseIsOneShot ==
    \A t \in Threads :
        frame[t].pc = "done" => frame[t].ret = OneShot(matcher, frame[t].corpus)

C6_Witness ==
    \E t \in Threads :
        /\ nsearch[t] >= 2
        /\ frame[t].pc = "done"
        /\ matcher.k_pattern_length >= 2
        /\ frame[t].ret >= 1
        /\ frame[t].ret + matcher.k_pattern_length <= Len(frame[t].corpus)
        /\ frame[t].ret = OneShot(matcher, frame[t].corpus)

\* thread t's call is inside the loop of do_search
InLoop(t) == frame[t].pc \in {"outer", "compare", "skip"}

\* the alignment of a frame: curPos (boyer_moore, boyer_moore_horspool) or
\* match_start (knuth_morris_pratt); the other one stays 0
Alignment(f) == f.curPos + f.match_start

\* C7: no step of a search call changes the matcher: pattern bounds, pattern
\* length, skip table, suffix table and failure table stay as the constructor
\* left them, up to and including the step that returns.
C7_SearchKeepsMatcher == [][matcher' = matcher]_vars

C7_Witness ==
    \E t \in Threads :
        /\ frame[t].pc = "done"
        /\ Alignment(frame[t]) >= 1
        /\ frame[t].ret = Len(frame[t].corpus)
        /\ matcher \in Matchers({matcher.pat})

\* C8: with several searches in flight on one matcher, every step changes the
\* frame of the stepping call only (never the matcher, never another call's
\* frame), and every call returns what it returns when it runs alone.
C8_ConcurrentSearches ==
    /\ [](\A t \in Threads :
            frame[t].pc = "done" =>
                frame[t].ret =
                    do_search(matcher, operator_call(matcher, frame[t].corpus)).ret)
    /\ [][/\ matcher' = matcher
          /\ \A t, u \in Threads :
                (frame'[t] # frame[t] /\ u # t) => frame'[u] = frame[u]]_vars

C8_Witness ==
    \E t, u \in Threads :
        /\ t # u
        /\ frame[t].pc = "skip"
        /\ frame[u].pc = "compare"
        /\ frame[t].corpus # frame[u].corpus

\* C9: a call that has entered the loop of do_search returns, with a match or
\* with corpus_last; and a mismatch always moves the alignment forward.
C9_SearchTerminates ==
    /\ \A t \in Caller : InLoop(t) ~> frame[t].pc = "done"
    /\ [][\A t \in Threads :
            (frame[t].pc = "skip" /\ frame'[t] # frame[t]) =>
                Alignment(frame'[t]) > Alignment(frame[t])]_vars

C9_Witness ==
    \E t \in Caller :
        /\ frame[t].pc = "done"
        /\ Alignment(frame[t]) > Len(frame[t].corpus) - matcher.k_pattern_length
        /\ matcher.k_pattern_length >= 2
        /\ frame[t].ret = Len(frame[t].corpus)

\* C10: constructed with the same default value and given the same insert
\* calls, the array table and the map table answer every lookup alike: with the
\* value of the last insert for the symbol, or the default value if there was none.
C10_TablesAgree ==
    \A x \in Symbol :
        /\ ArrayLookup(dense, x) = MapLookup(assoc, x)
        /\ MapLookup(assoc, x) =
              IF written[x] = <<>> THEN assoc.k_default_value ELSE written[x][1]

C10_Witness ==
    \E x, y \in Symbol :
        /\ x < 0
        /\ written[x] # <<>>
        /\ written[x][1] # dense.k_default_value
        /\ ArrayLookup(dense, x) = written[x][1]
        /\ written[y] = <<>>
        /\ MapLookup(assoc, y) = dense.k_default_value

(* ------------------------------- unhex ---------------------------------- *)

\* the input of the call, without the terminator of the pointer form
HexInput == SubSeq(decoder.mem, 1, decoder.len)

IsHexDigit(c) == c \in (48..57) \cup (65..70) \cup (97..102)

\* the input holds a character that is no hex digit
HasNonHex == \E k \in 1..decoder.len : ~IsHexDigit(HexInput[k])

\* the input is hex digits only and ends inside a decode unit
EndsInsideUnit == ~HasNonHex /\ decoder.len % UnitLen # 0

\* C11 as stated: in both forms of unhex, a character that is no hex digit
\* yields non_hex_input, and an input that ends inside a decode unit yields
\* not_enough_input and never non_hex_input.
C11_EndIsNotEnoughInput ==
    decoder.pc = "done" =>
        /\ HasNonHex => decoder.thrown = "non_hex_input"
        /\ EndsInsideUnit => decoder.thrown = "not_enough_input"

\* C11, amended: a character that is no hex digit yields non_hex_input in both
\* forms; an input of hex digits that ends inside a decode unit yields
\* not_enough_input in the iterator form and non_hex_input in the pointer
\* form, whose decode_one reads the terminator as a character; every other
\* input is decoded without an exception.
C11_FailureKinds ==
    decoder.pc = "done" =>
        decoder.thrown =
            IF HasNonHex THEN "non_hex_input"
            ELSE IF decoder.len % UnitLen = 0 THEN "none"
            ELSE IF decoder.form = "range" THEN "not_enough_input"
            ELSE "non_hex_input"

\* the pointer form has decoded a whole unit and then thrown at the terminator,
\* met inside the next unit
C11_Witness ==
    /\ decoder.pc = "done"
    /\ decoder.form = "ptr"
    /\ EndsInsideUnit
    /\ decoder.out # <<>>
    /\ decoder.first = decoder.len
    /\ decoder.thrown = "non_hex_input"

(* ------------------------- the matchers' tables ------------------------- *)

\* a matcher of class `alg' has been constructed
Built(alg) == matcher.alg = alg

\* the first n symbols of the sequence s
Take(s, n) == SubSeq(s, 1, n)
\* the last n symbols of the sequence s
TakeLast(s, n) == SubSeq(s, Len(s) - n + 1, Len(s))

\* brute force: the length of the longest proper border of the non-empty s,
\* a prefix of s, shorter than s, that is also a suffix of s
LongestBorder(s) ==
    LET borders == {b \in 0..(Len(s) - 1) : Take(s, b) = TakeLast(s, b)}
    IN  CHOOSE b \in borders : \A c \in borders : c <= b

\* C12: the failure table of a knuth_morris_pratt matcher has m + 1 entries,
\* entry 0 is -1, and entry i, for i in 1..m, is the length of the longest
\* proper border of the first i pattern symbols, as found by brute force.
C12_FailureTableIsBorders ==
    Built("kmp") =>
        /\ Len(matcher.kmp_skip_) = matcher.k_pattern_length + 1
        /\ At(matcher.kmp_skip_, 0) = -1
        /\ \A i \in 1..matcher.k_pattern_length :
              At(matcher.kmp_skip_, i) = LongestBorder(Take(matcher.pat, i))

\* a failure table whose construction fell back from a border that could not
\* be extended to a shorter one that could
C12_Witness ==
    /\ Built("kmp")
    /\ \E i \in 1..(matcher.k_pattern_length - 1) :
          /\ At(matcher.kmp_skip_, i) >= 1
          /\ At(matcher.pat, At(matcher.kmp_skip_, i)) # At(matcher.pat, i)
          /\ At(matcher.kmp_skip_, i + 1) >= 1

\* the indices at which the symbol x occurs in the first n symbols of p
OccurrencesIn(p, n, x) == {i \in 0..(n - 1) : At(p, i) = x}

\* brute force: the greatest member of a non-empty set of indices
Rightmost(S) == CHOOSE i \in S : \A k \in S : k <= i

\* C13: the skip table of a boyer_moore matcher maps every symbol that occurs
\* in the pattern to the index of its rightmost occurrence and every other
\* symbol to -1.
C13_SkipIsRightmostIndex ==
    Built("bm") =>
        \A x \in Symbol :
            LET occ == OccurrencesIn(matcher.pat, Len(matcher.pat), x) IN
            SkipLookup(matcher.skip_, x) =
                IF occ = {} THEN -1 ELSE Rightmost(occ)

\* an array table for a pattern in which a negative symbol occurs twice and
\* some symbol of the alphabet does not occur
C13_Witness ==
    /\ Built("bm")
    /\ matcher.skip_.useArray
    /\ \E x \in Symbol :
          /\ x < 0
          /\ Cardinality(OccurrencesIn(matcher.pat, Len(matcher.pat), x)) >= 2
    /\ \E y \in Alphabet : OccurrencesIn(matcher.pat, Len(matcher.pat), y) = {}

\* the symbols for which a skip table holds a value other than its default
StoredSymbols(tbl) == {x \in Symbol : SkipLookup(tbl, x) # tbl.k_default_value}

\* the symbols that occur in the first n symbols of p
SymbolsIn(p, n) == {At(p, i) : i \in 0..(n - 1)}

\* C14 as stated: the skip table of a boyer_moore_horspool matcher maps every
\* symbol of the pattern to m - 1 minus the index of its rightmost occurrence
\* in the pattern, and the symbols with a stored entry are exactly the symbols
\* of the pattern.
C14_DistanceFromEndOfWhole ==
    Built("bmh") =>
        LET m == matcher.k_pattern_length IN
        /\ \A x \in SymbolsIn(matcher.pat, m) :
              SkipLookup(matcher.skip_, x) =
                  m - 1 - Rightmost(OccurrencesIn(matcher.pat, m, x))
        /\ StoredSymbols(matcher.skip_) = SymbolsIn(matcher.pat, m)

\* C14, amended: the skip table of a boyer_moore_horspool matcher maps every
\* symbol that occurs among the first m - 1 symbols of the pattern to m - 1
\* minus the index of its rightmost occurrence among them, and the symbols
\* with a stored entry are exactly those symbols; every other symbol, the
\* last one of the pattern included when it occurs nowhere else, reads as the
\* default m.
C14_DistanceFromEndOfAllButLast ==
    Built("bmh") =>
        LET m == matcher.k_pattern_length
            tbl == matcher.skip_
        IN  /\ \A x \in SymbolsIn(matcher.pat, m - 1) :
                  SkipLookup(tbl, x) =
                      m - 1 - Rightmost(OccurrencesIn(matcher.pat, m - 1, x))
            /\ StoredSymbols(tbl) = SymbolsIn(matcher.pat, m - 1)
            /\ \A x \in Symbol \ SymbolsIn(matcher.pat, m - 1) :
                  SkipLookup(tbl, x) = m
            /\ ~tbl.useArray => DOMAIN tbl.skip_ = SymbolsIn(matcher.pat, m - 1)

\* a table for a pattern whose last symbol occurs nowhere else, and one of
\* whose other symbols occurs twice
C14_Witness ==
    /\ Built("bmh")
    /\ LET m == matcher.k_pattern_length IN
       /\ m >= 3
       /\ At(matcher.pat, m - 1) \notin SymbolsIn(matcher.pat, m - 1)
       /\ SkipLookup(matcher.skip_, At(matcher.pat, m - 1)) = m
       /\ \E x \in Symbol :
             Cardinality(OccurrencesIn(matcher.pat, m - 1, x)) >= 2

\* the pattern p moved right by s agrees with its own suffix p[j..m-1] at every
\* position of the suffix that the moved pattern covers
RealignsSuffix(p, j, s) ==
    \A x \in j..(Len(p) - 1) : x - s >= 0 => At(p, x - s) = At(p, x)

\* the pattern p moved right by s puts the symbol p[j-1], which has just
\* mismatched, on the position of the mismatch again
RepeatsMismatch(p, j, s) == j - 1 - s >= 0 /\ At(p, j - 1 - s) = At(p, j - 1)

\* brute force: the least member of a non-empty set of shifts
Least(S) == CHOOSE s \in S : \A r \in S : s <= r

\* the good-suffix shift after a mismatch at p[j-1], by brute force
GoodSuffixShift(p, j) ==
    Least({s \in 1..Len(p) : RealignsSuffix(p, j, s)})

\* the same by the strong rule, which also excludes the shifts that repeat
\* the mismatch
StrongGoodSuffixShift(p, j) ==
    Least({s \in 1..Len(p) : RealignsSuffix(p, j, s) /\ ~RepeatsMismatch(p, j, s)})

\* C15 as stated: the suffix table of a boyer_moore matcher with a non-empty
\* pattern has m + 1 entries, and entry j, for j in 1..m, is the least shift
\* s >= 1 that realigns the matched suffix pattern[j..m-1] and does not put a
\* symbol equal to pattern[j-1] on the position of the mismatch.
C15_StrongGoodSuffix ==
    Built("bm") /\ matcher.k_pattern_length > 0 =>
        /\ Len(matcher.suffix_) = matcher.k_pattern_length + 1
        /\ \A j \in 1..matcher.k_pattern_length :
              At(matcher.suffix_, j) = StrongGoodSuffixShift(matcher.pat, j)

\* C15, amended: the suffix table of a boyer_moore matcher with a non-empty
\* pattern has m + 1 entries, and entry j, for j in 1..m, is the least shift
\* s >= 1 that realigns the matched suffix pattern[j..m-1], whether or not it
\* puts a symbol equal to pattern[j-1] on the position of the mismatch.
C15_GoodSuffix ==
    Built("bm") /\ matcher.k_pattern_length > 0 =>
        /\ Len(matcher.suffix_) = matcher.k_pattern_length + 1
        /\ \A j \in 1..matcher.k_pattern_length :
              At(matcher.suffix_, j) = GoodSuffixShift(matcher.pat, j)

\* a suffix table with an entry, for a matched suffix of two symbols or more,
\* that is less than the pattern length and less than the strong rule's shift
C15_Witness ==
    /\ Built("bm")
    /\ \E j \in 1..(matcher.k_pattern_length - 2) :
          /\ At(matcher.suffix_, j) < matcher.k_pattern_length
          /\ At(matcher.suffix_, j) < StrongGoodSuffixShift(matcher.pat, j)
          /\ RepeatsMismatch(matcher.pat, j, At(matcher.suffix_, j))

(* --------------------------- the search loops --------------------------- *)

\* the corpus index knuth_morris_pratt::do_search compares, or compares next
Cursor(f) == f.match_start + f.idx

\* the comparison of the frame f, at `compare', finds equal symbols
KMPEqual(M, f) == At(M.pat, f.idx) = At(f.corpus, Cursor(f))

\* C16: in a knuth_morris_pratt search the corpus index compared,
\* match_start + idx, never decreases from one step to the next, and it
\* increases with every comparison that finds equal symbols: the index of a
\* comparison is never less than that of the one before, and an index compared
\* equal is never compared again.
C16_NoRescan ==
    [][\A t \in Threads :
          Built("kmp") /\ InLoop(t) =>
              /\ Cursor(frame'[t]) >= Cursor(frame[t])
              /\ frame[t].pc = "compare" /\ KMPEqual(matcher, frame[t]) =>
                    Cursor(frame'[t]) = Cursor(frame[t]) + 1]_vars

\* a search that has just moved its alignment forward after a mismatch and
\* resumes inside the pattern, at the corpus index of the mismatch
C16_Witness ==
    \E t \in Threads :
        /\ Built("kmp")
        /\ frame[t].pc = "outer"
        /\ frame[t].match_start >= 1
        /\ frame[t].idx >= 1
        /\ Cursor(frame[t]) < Len(frame[t].corpus)

\* C17: in knuth_morris_pratt::do_search with 1 <= m <= n, at every point of
\* the loop, the point just after an update of match_start included, every
\* entry of the failure table is in -1..k_pattern_length, idx is in
\* 0..k_pattern_length and match_start is in
\* 0..k_corpus_length - k_pattern_length + 1.
C17_CommentInvariants ==
    \A t \in Threads :
        Built("kmp") /\ InLoop(t) =>
            LET k_pattern_length == matcher.k_pattern_length
                k_corpus_length == Len(frame[t].corpus)
            IN  /\ \A i \in 0..k_pattern_length :
                      At(matcher.kmp_skip_, i) \in -1..k_pattern_length
                /\ frame[t].idx \in 0..k_pattern_length
                /\ frame[t].match_start \in
                      0..(k_corpus_length - k_pattern_length + 1)

\* the indices at which the step the frame f is at reads the corpus
CorpusReads(M, f) ==
    CASE M.alg = "bm" /\ f.pc \in {"compare", "skip"} -> {f.curPos + f.j - 1}
      [] M.alg = "bmh" /\ f.pc = "compare" -> {f.curPos + f.j}
      [] M.alg = "bmh" /\ f.pc = "skip" -> {f.curPos + M.k_pattern_length - 1}
      [] M.alg = "kmp" /\ f.pc = "compare" -> {f.match_start + f.idx}
      [] OTHER -> {}

\* the indices at which it reads the pattern
PatternReads(M, f) ==
    CASE M.alg = "bm" /\ f.pc = "compare" -> {f.j - 1}
      [] M.alg = "bmh" /\ f.pc = "compare" -> {f.j}
      [] M.alg = "kmp" /\ f.pc = "compare" -> {f.idx}
      [] OTHER -> {}

\* the indices at which it reads suffix_ (boyer_moore)
SuffixReads(M, f) == IF M.alg = "bm" /\ f.pc = "skip" THEN {f.j} ELSE {}

\* the indices at which it reads skip_ (knuth_morris_pratt)
FailureReads(M, f) == IF M.alg = "kmp" /\ f.pc = "skip" THEN {f.idx} ELSE {}

\* C18: in every search of the three matchers with 1 <= m <= n, every corpus
\* read is at an index in 0..n-1, every pattern read in 0..m-1, every read of
\* the suffix table in 1..m, every read of the failure table in 0..m-1, and
\* the unsigned j of boyer_moore and boyer_moore_horspool is never below 0
\* (it is at least 1 where boyer_moore decrements it).
C18_ReadsInRange ==
    \A t \in Threads :
        LET f == frame[t]
            m == matcher.k_pattern_length
            n == Len(f.corpus)
        IN  InLoop(t) /\ 1 <= m /\ m <= n =>
                /\ CorpusReads(matcher, f) \subseteq 0..(n - 1)
                /\ PatternReads(matcher, f) \subseteq 0..(m - 1)
                /\ SuffixReads(matcher, f) \subseteq 1..m
                /\ FailureReads(matcher, f) \subseteq 0..(m - 1)
                /\ f.j >= 0
                /\ Built("bm") /\ f.pc = "compare" => f.j >= 1

\* a boyer_moore search at the last alignment of a corpus longer than the
\* pattern, about to read the last entry of the suffix table and the last
\* corpus symbol
C18_Witness ==
    \E t \in Threads :
        /\ Built("bm")
        /\ frame[t].pc = "skip"
        /\ frame[t].j = matcher.k_pattern_length
        /\ frame[t].curPos >= 1
        /\ frame[t].curPos + frame[t].j = Len(frame[t].corpus)

\* the distance the search of the frame f, at `skip', moves its alignment by
Shift(M, f) ==
    CASE M.alg = "bm" -> BMShift(M, f)
      [] M.alg = "bmh" -> BMHShift(M, f)
      [] M.alg = "kmp" -> f.idx - At(M.kmp_skip_, f.idx)

Max(a, b) == IF a >= b THEN a ELSE b

\* C19: at every mismatch of the three search loops the alignment moves
\* forward by at least 1 and at most m: in boyer_moore by
\* max(j - k - 1, suffix_[j]) with the suffix entry used in 1..m, in
\* boyer_moore_horspool by the skip-table value of the corpus symbol under the
\* last pattern position, in knuth_morris_pratt by idx - skip_[idx]; so every
\* mismatch increases the alignment, and in no reachable state does the
\* alignment exceed n.
C19_ShiftInRange ==
    \A t \in Threads :
        LET f == frame[t]
            m == matcher.k_pattern_length
            n == Len(f.corpus)
        IN  /\ Alignment(f) <= n
            /\ InLoop(t) /\ f.pc = "skip" =>
                  /\ Shift(matcher, f) \in 1..m
                  /\ Alignment(do_search_step(matcher, f)) =
                        Alignment(f) + Shift(matcher, f)
                  /\ Alignment(do_search_step(matcher, f)) > Alignment(f)
                  /\ Built("bm") =>
                        LET k == SkipLookup(matcher.skip_,
                                            At(f.corpus, f.curPos + f.j - 1))
                        IN  /\ At(matcher.suffix_, f.j) \in 1..m
                            /\ Shift(matcher, f) =
                                  Max(f.j - k - 1, At(matcher.suffix_, f.j))

\* a mismatch at the last alignment that moves the alignment by the whole
\* pattern length, to n
C19_Witness ==
    \E t \in Threads :
        /\ InLoop(t)
        /\ frame[t].pc = "skip"
        /\ matcher.k_pattern_length >= 2
        /\ Alignment(frame[t]) >= 1
        /\ Shift(matcher, frame[t]) = matcher.k_pattern_length
        /\ Alignment(frame[t]) + Shift(matcher, frame[t]) = Len(frame[t].corpus)

====
